---- MODULE Spec2Model ----
(***************************************************************************)
(* Model of the mock trading bot embedded in src/ai_crypto_bot.py          *)
(* (the string ai_code, lines 10-226): the signal decider with its         *)
(* learning memory, the trade executor, the two snapshot files, the loop  *)
(* driver, the status endpoint served beside it, and the restart of a      *)
(* killed process.                                                         *)
(*                                                                         *)
(* Numbers.  The bot computes in binary floating point; the model computes *)
(* the same expressions exactly, over rationals:                           *)
(*   - money is counted in ticks of 1/Scale dollar (round(x, 4));          *)
(*     a position is counted in ticks of 1/Scale of the asset;             *)
(*   - an unrounded amount is a mixed number [w, f, d] = w + f/d,          *)
(*     0 <= f < d, in lowest terms;                                        *)
(*   - a running average is a decimal [n, e] = n / 10^e dollars, without   *)
(*     trailing zeros;                                                     *)
(*   - a stability is counted in thousandths (round(x, 3));                *)
(*   - round(x, 4) of an amount that lies exactly half way between two     *)
(*     ticks may come out either way in floating point, so Round4 yields   *)
(*     both neighbours there.                                              *)
(* Prices are whole dollars drawn from Prices: the mock price source's     *)
(* random jitter is a nondeterministic choice.                             *)
(***************************************************************************)
EXTENDS Integers, Sequences, FiniteSets, TLC

VARIABLES
  symbols,        \* SYMBOLS: the configured trading pairs, in order
  startBalance,   \* START_BALANCE, in ticks
  bootFiles,      \* the two snapshot files as the process found them at startup
  stateFile,      \* BACKUP_FILE
  learningFile,   \* LEARNING_FILE
  state,          \* main_loop's PortfolioState
  learning,       \* main_loop's LearningMemory
  pc,             \* where the loop thread (or the caller of execute_trade) stands
  loop,           \* main_loop's local iteration counter
  idx,            \* position of the for-loop over SYMBOLS
  last,           \* locals of the latest decide_signal call
  reported,       \* iterations in which send_summary ran
  calls,          \* execute_trade calls made so far, each with the state it found
  observed,       \* prices decide_signal was given so far, in order
  begun,          \* iterations begun so far, over all runs of the process
  restarts,       \* times the process was killed and started again
  status,         \* the latest response of the status endpoint
  persisted,      \* the documents BACKUP_FILE has held, each written completely
  checkpoint      \* state and learning as they were when an iteration last
                  \* finished saving both

vars == << symbols, startBalance, bootFiles, stateFile, learningFile, state,
           learning, pc, loop, idx, last, reported, calls, observed, begun,
           restarts, status, persisted, checkpoint >>

----------------------------------------------------------------------------
\* Bounds of the model.

\* iterations of the loop that are explored
MaxLoops == 3

\* execute_trade calls explored when the executor is driven directly
MaxCalls == 3

\* times the process is killed and started again
MaxRestarts == 1

\* prices the price source may return, in whole dollars
Prices == {97, 100, 103}

\* configurations of SYMBOLS
SymbolConfigs == { << "BTC/USDT" >>, << "BTC/USDT", "ETH/USDT" >> }

AllSymbols == {"BTC/USDT", "ETH/USDT"}

----------------------------------------------------------------------------
\* Program constants.

\* round(..., 4): ticks per dollar
Scale == 10000

\* START_BALANCE's default, in dollars
DefaultStartDollars == 10000

\* int(os.getenv("SUMMARY_EVERY", "6")), configured to 2 here
SUMMARY_EVERY == 2

\* stability := 0.1 on the first observation, in thousandths
FirstStability == 100

\* min(0.9, stability), in thousandths
StabilityCap == 900

\* stability + 0.03, in thousandths
StabilityUp == 30

\* stability - 0.02, in thousandths
StabilityDown == 20

\* 1.0 in thousandths
One == 1000

----------------------------------------------------------------------------
\* Exact arithmetic.

Min(a, b) == IF a < b THEN a ELSE b

Max(a, b) == IF a > b THEN a ELSE b

Abs(a) == IF a < 0 THEN 0 - a ELSE a

RECURSIVE Gcd(_, _)
Gcd(a, b) == IF b = 0 THEN a ELSE Gcd(b, a % b)

RECURSIVE Pow10(_)
Pow10(e) == IF e = 0 THEN 1 ELSE 10 * Pow10(e - 1)

\* the mixed number w + f/d for any f >= 0, d > 0
QNorm(w, f, d) ==
  LET ff == f % d
      g  == Gcd(d, ff)
  IN  [w |-> w + (f \div d), f |-> ff \div g, d |-> d \div g]

QInt(n) == [w |-> n, f |-> 0, d |-> 1]

QZero == QInt(0)

QLcm(a, b) == (a.d \div Gcd(a.d, b.d)) * b.d

QAdd(a, b) ==
  LET L == QLcm(a, b)
  IN  QNorm(a.w + b.w, a.f * (L \div a.d) + b.f * (L \div b.d), L)

QSub(a, b) ==
  LET L == QLcm(a, b)
  IN  QNorm(a.w - b.w - 1, L + a.f * (L \div a.d) - b.f * (L \div b.d), L)

\* n / k for integers n and k > 0
QFrac(n, k) == QNorm(n \div k, n % k, k)

\* a / k for a mixed number a >= 0 and an integer k > 0
QDivInt(a, k) == QAdd(QFrac(a.w, k), QNorm(0, a.f, a.d * k))

\* a * k for a mixed number a and an integer k >= 0
QMulInt(a, k) == QNorm(a.w * k, a.f * k, a.d)

QIsPositive(a) == a.w > 0 \/ (a.w = 0 /\ a.f > 0)

QIsNegative(a) == a.w < 0

\* the sign (-1, 0, 1) of x*K - y*C for naturals x, y and constants K, C with
\* B * Max(K, C) < 2^31, computed on x = xa*B + xf, y = ya*B + yf
ProdCmp(x, K, y, C, B) ==
  LET Dw == (x \div B) * K - (y \div B) * C
      Df == (x % B) * K - (y % B) * C
      M  == Max(K, C)
      Sg(v) == IF v > 0 THEN 1 ELSE IF v < 0 THEN 0 - 1 ELSE 0
  IN  IF Dw = 0 THEN Sg(Df)
      ELSE IF Dw > 0 /\ Df >= 0 THEN 1
      ELSE IF Dw < 0 /\ Df <= 0 THEN 0 - 1
      ELSE IF Dw >= M THEN 1
      ELSE IF 0 - Dw >= M THEN 0 - 1
      ELSE Sg(Dw * B + Df)

\* the decimal n / 10^e without trailing zeros
RECURSIVE DecNorm(_, _)
DecNorm(n, e) ==
  IF e > 0 /\ n % 10 = 0 THEN DecNorm(n \div 10, e - 1) ELSE [n |-> n, e |-> e]

DecOfInt(p) == [n |-> p, e |-> 0]

----------------------------------------------------------------------------
\* Data.

\* symbol.split("/")[0]
Base(symbol) ==
  CASE symbol = "BTC/USDT" -> "BTC"
    [] symbol = "ETH/USDT" -> "ETH"

StateKeys == {"balance", "positions", "pnl"}

EmptyPositions == [b \in {} |-> QZero]

\* a PortfolioState as a JSON object: `has` holds the keys that are present,
\* and an absent key carries a fixed filler value
PortfolioState(has, balance, positions, pnl) ==
  [has |-> has, balance |-> balance, positions |-> positions, pnl |-> pnl]

\* {"balance": START_BALANCE, "positions": {}, "pnl": 0.0}
DefaultState(sb) == PortfolioState(StateKeys, sb, EmptyPositions, 0)

\* state.get("balance", 0.0)
GetBalance(st) == IF "balance" \in st.has THEN st.balance ELSE 0

\* positions.get(base, 0.0)
GetPosition(positions, base) ==
  IF base \in DOMAIN positions THEN positions[base] ELSE QZero

\* positions[base] = q
SetPosition(positions, base, q) ==
  [b \in (DOMAIN positions) \cup {base} |-> IF b = base THEN q ELSE positions[b]]

\* a memory entry {"avg": ..., "stability": ...}; known = FALSE is "avg": None
MemEntry(known, avg, stability) ==
  [known |-> known, avg |-> avg, stability |-> stability]

\* {"avg": None, "stability": 0.0}
DefaultEntry == MemEntry(FALSE, DecOfInt(0), 0)

EmptyMemory == [s \in {} |-> DefaultEntry]

\* a LearningMemory as a JSON object: `has` holds the top-level keys present,
\* hasLoops tells whether "global" holds "loops"
LearningMemory(has, memory, hasLoops, loops) ==
  [has |-> has, memory |-> memory, hasLoops |-> hasLoops, loops |-> loops]

LearningKeys == {"memory", "global"}

\* a snapshot file: missing, unparseable ("corrupt"), or a JSON object
MissingFile == [kind |-> "missing", doc |-> << >>]

CorruptFile == [kind |-> "corrupt", doc |-> << >>]

JsonFile(doc) == [kind |-> "json", doc |-> doc]

----------------------------------------------------------------------------
\* The snapshot files.

\* a slip: an empty object where the defaults belong
load_state_empty(file, sb) ==
  IF file.kind = "json" THEN file.doc ELSE PortfolioState({}, 0, EmptyPositions, 0)

\* load_state
load_state(file, sb) ==
  IF file.kind = "json" THEN file.doc ELSE DefaultState(sb)

\* save_state
save_state(st) == JsonFile(st)

\* load_learning
load_learning(file, syms) ==
  LET data   == IF file.kind = "json" THEN file.doc
                ELSE LearningMemory({}, EmptyMemory, FALSE, 0)
      memory == IF "memory" \in data.has THEN data.memory ELSE EmptyMemory
      hasG   == "global" \in data.has
      wanted == {syms[i] : i \in 1..Len(syms)}
  IN  LearningMemory(
        LearningKeys,
        [s \in (DOMAIN memory) \cup wanted |->
           IF s \in DOMAIN memory THEN memory[s] ELSE DefaultEntry],
        IF hasG THEN data.hasLoops ELSE TRUE,
        IF hasG /\ data.hasLoops THEN data.loops ELSE 0)

\* save_learning
save_learning(data) == JsonFile(data)

----------------------------------------------------------------------------
\* The price source.

\* fetch_mock_price: a base value plus random jitter
fetch_mock_price(symbol) == Prices

----------------------------------------------------------------------------
\* The signal decider and the learning memory.

\* denominator of thr_pct
ThrDen == 100000

\* a slip: the threshold always taken at the first observation's stability
ThrPctFirst(stability) == One - Min(StabilityCap, FirstStability)

\* thr_pct = 0.01 * (1.0 - min(0.9, stability)), as a multiple of 1/ThrDen
ThrPct(stability) == One - Min(StabilityCap, stability)

\* price > up_thr, up_thr = avg * (1 + thr_pct)
AboveUp(price, avg, thr) ==
  LET B == Pow10(avg.e)
  IN  ProdCmp(price * B, ThrDen, avg.n, ThrDen + thr, B) = 1

\* price < down_thr, down_thr = avg * (1 - thr_pct)
BelowDown(price, avg, thr) ==
  LET B == Pow10(avg.e)
  IN  ProdCmp(price * B, ThrDen, avg.n, ThrDen - thr, B) = 0 - 1

\* a slip: the elif compares with up_thr again
SignalOfUpTwice(price, avg, thr) ==
  IF AboveUp(price, avg, thr) THEN "SELL"
  ELSE IF BelowDown(price, avg, 0 - thr) THEN "BUY"
  ELSE "HOLD"

\* the if / elif / else that picks the signal
SignalOf(price, avg, thr) ==
  IF AboveUp(price, avg, thr) THEN "SELL"
  ELSE IF BelowDown(price, avg, thr) THEN "BUY"
  ELSE "HOLD"

\* a slip: the comparison turned round
IsCloseInverted(price, avg, thr) ==
  LET B == Pow10(avg.e)
  IN  ProdCmp(Abs(price * B - avg.n), 2 * ThrDen, Max(B, avg.n), 3 * thr, B) = 1

\* distance < thr_pct * 1.5, distance = abs(price - avg) / max(1.0, avg)
IsClose(price, avg, thr) ==
  LET B == Pow10(avg.e)
  IN  ProdCmp(Abs(price * B - avg.n), 2 * ThrDen, Max(B, avg.n), 3 * thr, B) = 0 - 1

\* a slip: the weights 0.9 and 0.1 swapped
NewAvgSwapped(price, avg) == DecNorm(avg.n + 9 * price * Pow10(avg.e), avg.e + 1)

\* new_avg = (avg * 0.9) + (price * 0.1)
NewAvg(price, avg) == DecNorm(9 * avg.n + price * Pow10(avg.e), avg.e + 1)

\* a slip: no min(1.0, ...) and no max(0.0, ...)
NewStabilityUnclamped(close, stability) ==
  IF close THEN stability + StabilityUp ELSE stability - StabilityDown

\* a slip: the two step sizes swapped
NewStabilityStepsSwapped(close, stability) ==
  IF close THEN Min(One, stability + StabilityDown)
  ELSE Max(0, stability - StabilityUp)

\* new_stability, as stored: round(new_stability, 3) of a whole number of
\* thousandths is that number
NewStability(close, stability) ==
  IF close THEN Min(One, stability + StabilityUp)
  ELSE Max(0, stability - StabilityDown)

\* learning["memory"].get(symbol, {"avg": None, "stability": 0.0})
GetEntry(memory, symbol) ==
  IF symbol \in DOMAIN memory THEN memory[symbol] ELSE DefaultEntry

\* decide_signal: the signal, the locals it was decided with, and the entry
\* stored for the symbol
decide_signal(symbol, price, memory) ==
  LET mem       == GetEntry(memory, symbol)
      avg       == IF mem.known THEN mem.avg ELSE DecOfInt(price)
      stability == IF mem.known THEN mem.stability ELSE FirstStability
      thr       == ThrPct(stability)
  IN  [symbol    |-> symbol,
       price     |-> price,
       avg       |-> avg,
       stability |-> stability,
       thr       |-> thr,
       signal    |-> SignalOf(price, avg, thr),
       entry     |-> MemEntry(TRUE, NewAvg(price, avg),
                              NewStability(IsClose(price, avg, thr), stability))]

\* a slip: the entry stored under every symbol of the memory
SetEntryEverywhere(memory, symbol, entry) ==
  [s \in (DOMAIN memory) \cup {symbol} |-> entry]

\* learning["memory"][symbol] = {...}
SetEntry(memory, symbol, entry) ==
  [s \in (DOMAIN memory) \cup {symbol} |-> IF s = symbol THEN entry ELSE memory[s]]

----------------------------------------------------------------------------
\* The trade executor.

\* round(x, 4): the nearest tick, either neighbour when x lies half way
Round4(x) ==
  IF 2 * x.f < x.d THEN {x.w}
  ELSE IF 2 * x.f > x.d THEN {x.w + 1}
  ELSE {x.w, x.w + 1}

\* a slip: the notional sized at 110% of the balance
UsdSizeOverBalance(balance) == QFrac(11 * balance, 10)

\* usd_size = balance * 0.10
UsdSize(balance) == QFrac(balance, 10)

\* a slip: the notional taken as the quantity
BuyQtyNoPrice(usd_size, price) == usd_size

\* qty = usd_size / price
BuyQty(usd_size, price) == QDivInt(usd_size, price)

\* a slip: the quantity subtracted
BoughtPositionMinus(held, qty) == QSub(held, qty)

\* positions.get(base, 0.0) + qty
BoughtPosition(held, qty) == QAdd(held, qty)

\* state["balance"] - usd_size
AfterSpend(balance, usd_size) == QSub(QInt(balance), usd_size)

\* a slip: the quantity taken as the proceeds
ProceedsNoPrice(held, price) == held

\* proceeds = held * price
Proceeds(held, price) == QMulInt(held, price)

\* state["balance"] + proceeds
AfterReceive(balance, proceeds) == QAdd(QInt(balance), proceeds)

\* the outcome of a call: the state it leaves, and whether it raised
Outcome(st, raised) == [state |-> st, raised |-> raised]

\* a slip: no `balance < 1` in the guard
ExecuteBuyNoFloor(st, base, price) ==
  LET balance  == GetBalance(st)
      usd_size == UsdSize(balance)
  IN  IF ~QIsPositive(usd_size)
      THEN {Outcome(st, FALSE)}
      ELSE IF "positions" \notin st.has
      THEN {Outcome(st, TRUE)}
      ELSE LET qty == BuyQty(usd_size, price)
               pos == SetPosition(st.positions, base,
                        BoughtPosition(GetPosition(st.positions, base), qty))
           IN  { Outcome([st EXCEPT !.positions = pos, !.balance = b], FALSE) :
                   b \in Round4(AfterSpend(st.balance, usd_size)) }

\* the BUY branch
ExecuteBuy(st, base, price) ==
  LET balance  == GetBalance(st)
      usd_size == UsdSize(balance)
  IN  IF ~QIsPositive(usd_size) \/ balance < Scale
      THEN {Outcome(st, FALSE)}
      ELSE IF "positions" \notin st.has
      THEN {Outcome(st, TRUE)}
      ELSE LET qty == BuyQty(usd_size, price)
               pos == SetPosition(st.positions, base,
                        BoughtPosition(GetPosition(st.positions, base), qty))
           IN  { Outcome([st EXCEPT !.positions = pos, !.balance = b], FALSE) :
                   b \in Round4(AfterSpend(st.balance, usd_size)) }

\* a slip: no `held <= 0` guard
ExecuteSellNoGuard(st, base, price) ==
  IF "positions" \notin st.has \/ "balance" \notin st.has
  THEN {Outcome(st, TRUE)}
  ELSE LET held == GetPosition(st.positions, base)
       IN  { Outcome([st EXCEPT !.balance = b,
                                !.positions = SetPosition(@, base, QZero)],
                     FALSE) :
               b \in Round4(AfterReceive(st.balance, Proceeds(held, price))) }

\* the SELL branch
ExecuteSell(st, base, price) ==
  IF "positions" \notin st.has
  THEN {Outcome(st, TRUE)}
  ELSE LET held == GetPosition(st.positions, base)
       IN  IF ~QIsPositive(held)
           THEN {Outcome(st, FALSE)}
           ELSE IF "balance" \notin st.has
           THEN {Outcome(st, TRUE)}
           ELSE { Outcome([st EXCEPT !.balance = b,
                                     !.positions = SetPosition(@, base, QZero)],
                          FALSE) :
                    b \in Round4(AfterReceive(st.balance, Proceeds(held, price))) }

\* execute_trade: the set of outcomes of one call
execute_trade(st, symbol, signal, price) ==
  IF signal = "BUY" THEN ExecuteBuy(st, Base(symbol), price)
  ELSE IF signal = "SELL" THEN ExecuteSell(st, Base(symbol), price)
  ELSE {Outcome(st, FALSE)}

----------------------------------------------------------------------------
\* What the process may find at startup.

\* START_BALANCE = float(os.getenv("START_BALANCE", "10000")), in ticks
DefaultStart == DefaultStartDollars * Scale

\* configured starting balances: the default, and one below 1 dollar
StartBalances == {DefaultStart, Scale \div 2}

\* a snapshot an earlier run left after buying BTC once at 100
EarlierState ==
  PortfolioState(StateKeys, 9000 * Scale,
                 SetPosition(EmptyPositions, "BTC", QInt(10 * Scale)), 0)

\* BACKUP_FILE at startup: missing, unparseable, a JSON object that lacks
\* keys, or an earlier snapshot
BootStateFiles(sb) ==
  { MissingFile,
    CorruptFile,
    JsonFile(PortfolioState({}, 0, EmptyPositions, 0)),
    JsonFile(PortfolioState({"balance"}, sb, EmptyPositions, 0)),
    JsonFile(PortfolioState({"positions"}, 0,
                            SetPosition(EmptyPositions, "BTC", QInt(10 * Scale)), 0)),
    JsonFile(EarlierState) }

\* memories an earlier run left: stabilities next to both ends of [0, 1]
EarlierMemoryA ==
  SetEntry(SetEntry(EmptyMemory, "BTC/USDT", MemEntry(TRUE, DecOfInt(100), 990)),
           "ETH/USDT", MemEntry(TRUE, DecOfInt(100), 10))

EarlierMemoryB ==
  SetEntry(EmptyMemory, "BTC/USDT", MemEntry(TRUE, DecOfInt(100), 10))

\* the loop count of the earlier snapshots
EarlierLoops == 7

\* LEARNING_FILE at startup: missing, unparseable, a JSON object that lacks
\* keys, or an earlier snapshot
BootLearningFiles ==
  { MissingFile,
    CorruptFile,
    JsonFile(LearningMemory({}, EmptyMemory, FALSE, 0)),
    JsonFile(LearningMemory({"memory"}, EmptyMemory, FALSE, 0)),
    JsonFile(LearningMemory({"global"}, EmptyMemory, FALSE, 0)),
    JsonFile(LearningMemory(LearningKeys, EarlierMemoryA, TRUE, EarlierLoops)),
    JsonFile(LearningMemory(LearningKeys, EarlierMemoryB, TRUE, EarlierLoops)) }

\* fillers for variables that hold nothing yet
NoState == PortfolioState({}, 0, EmptyPositions, 0)

NoLearning == LearningMemory({}, EmptyMemory, FALSE, 0)

\* no status request served yet
NoStatus ==
  [served |-> FALSE, balance |-> 0, positions |-> EmptyPositions,
   writing |-> FALSE, fresh |-> TRUE]

NoCheckpoint == [valid |-> FALSE, state |-> NoState, learning |-> NoLearning]

\* the documents a snapshot file holds: one when it parses, none otherwise
Persisted(file) == IF file.kind = "json" THEN {file.doc} ELSE {}

NoDecision ==
  [symbol |-> "", price |-> 0, avg |-> DecOfInt(0), stability |-> 0, thr |-> 0,
   signal |-> "NONE", entry |-> DefaultEntry]

----------------------------------------------------------------------------
\* The loop driver.

\* the pairs of files explored: each variant of one file beside a missing
\* other file, and the earlier snapshots together; a starting balance other
\* than the default is explored from a fresh start
BootFiles(sb) ==
  IF sb = DefaultStart
  THEN { [state |-> f, learning |-> MissingFile] : f \in BootStateFiles(sb) }
       \cup { [state |-> MissingFile, learning |-> f] : f \in BootLearningFiles }
       \cup { [state |-> JsonFile(EarlierState), learning |-> f] :
                f \in { JsonFile(LearningMemory(LearningKeys, m, TRUE, EarlierLoops)) :
                          m \in {EarlierMemoryA, EarlierMemoryB} } }
  ELSE { [state |-> MissingFile, learning |-> MissingFile] }

Init ==
  /\ symbols \in SymbolConfigs
  /\ startBalance \in StartBalances
  /\ bootFiles \in BootFiles(startBalance)
  /\ stateFile = bootFiles.state
  /\ learningFile = bootFiles.learning
  /\ state = NoState
  /\ learning = NoLearning
  /\ pc = "load_state"
  /\ loop = 0
  /\ idx = 0
  /\ last = NoDecision
  /\ reported = {}
  /\ calls = << >>
  /\ observed = << >>
  /\ begun = 0
  /\ restarts = 0
  /\ status = NoStatus
  /\ persisted = Persisted(stateFile)
  /\ checkpoint = NoCheckpoint

\* state = load_state()
LoadState ==
  /\ pc = "load_state"
  /\ state' = load_state(stateFile, startBalance)
  /\ pc' = "load_learning"
  /\ UNCHANGED << symbols, startBalance, bootFiles, stateFile, learningFile,
                  learning, loop, idx, last, reported, calls, observed, begun,
                  restarts, status, persisted, checkpoint >>

\* learning = load_learning(); loop = 0
LoadLearning ==
  /\ pc = "load_learning"
  /\ learning' = load_learning(learningFile, symbols)
  /\ loop' = 0
  /\ pc' = "loop_top"
  /\ UNCHANGED << symbols, startBalance, bootFiles, stateFile, learningFile,
                  state, idx, last, reported, calls, observed, begun,
                  restarts, status, persisted, checkpoint >>

\* a slip: the global counter set from the run's own counter
BeginIterationFromLocal ==
  /\ pc = "loop_top"
  /\ begun < MaxLoops
  /\ begun' = begun + 1
  /\ loop' = loop + 1
  /\ learning' = [learning EXCEPT !.loops = loop', !.hasLoops = TRUE]
  /\ idx' = 1
  /\ pc' = "symbol"
  /\ UNCHANGED << symbols, startBalance, bootFiles, stateFile, learningFile,
                  state, last, reported, calls, observed, restarts, status,
                  persisted, checkpoint >>

\* loop += 1; learning["global"]["loops"] = learning["global"].get("loops", 0) + 1
BeginIteration ==
  /\ pc = "loop_top"
  /\ begun < MaxLoops
  /\ begun' = begun + 1
  /\ loop' = loop + 1
  /\ learning' = [learning EXCEPT
                    !.loops = (IF learning.hasLoops THEN @ ELSE 0) + 1,
                    !.hasLoops = TRUE]
  /\ idx' = 1
  /\ pc' = "symbol"
  /\ UNCHANGED << symbols, startBalance, bootFiles, stateFile, learningFile,
                  state, last, reported, calls, observed, restarts, status,
                  persisted, checkpoint >>

\* a slip: the for-loop followed by save_learning, save_state left out
AfterSymbolSkipsSave(i) == IF i < Len(symbols) THEN "symbol" ELSE "save_learning"

\* where the for-loop goes once symbols[i] is done
AfterSymbol(i) == IF i < Len(symbols) THEN "symbol" ELSE "save_state"

\* price = fetch_mock_price(sym); signal = decide_signal(sym, price, learning)
Observe ==
  /\ pc = "symbol"
  /\ \E price \in fetch_mock_price(symbols[idx]) :
       LET d == decide_signal(symbols[idx], price, learning.memory)
       IN  /\ last' = d
           /\ observed' = Append(observed, price)
           /\ learning' = [learning EXCEPT
                             !.memory = SetEntry(@, symbols[idx], d.entry)]
           /\ IF d.signal # "HOLD"
              THEN pc' = "trade" /\ idx' = idx
              ELSE pc' = AfterSymbol(idx) /\ idx' = idx + 1
  /\ UNCHANGED << symbols, startBalance, bootFiles, stateFile, learningFile,
                  state, loop, reported, calls, begun,
                  restarts, status, persisted, checkpoint >>

\* if signal != "HOLD": execute_trade(state, sym, signal, price)
Trade ==
  /\ pc = "trade"
  /\ \E o \in execute_trade(state, last.symbol, last.signal, last.price) :
       /\ state' = o.state
       /\ IF o.raised
          THEN pc' = "crashed" /\ idx' = idx
          ELSE pc' = AfterSymbol(idx) /\ idx' = idx + 1
  /\ UNCHANGED << symbols, startBalance, bootFiles, stateFile, learningFile,
                  learning, loop, last, reported, calls, observed, begun,
                  restarts, status, persisted, checkpoint >>

\* save_state: open(BACKUP_FILE, "w") empties the file
OpenStateFile ==
  /\ pc = "save_state"
  /\ stateFile' = CorruptFile
  /\ pc' = "dump_state"
  /\ UNCHANGED << symbols, startBalance, bootFiles, learningFile, state,
                  learning, loop, idx, last, reported, calls, observed, begun,
                  restarts, status, persisted, checkpoint >>

\* save_state: json.dump(state, f, indent=2), and the file is closed
SaveState ==
  /\ pc = "dump_state"
  /\ stateFile' = save_state(state)
  /\ persisted' = persisted \cup Persisted(stateFile')
  /\ pc' = "save_learning"
  /\ UNCHANGED << symbols, startBalance, bootFiles, learningFile, state,
                  learning, loop, idx, last, reported, calls, observed, begun,
                  restarts, status, checkpoint >>

\* save_learning: open(LEARNING_FILE, "w") empties the file
OpenLearningFile ==
  /\ pc = "save_learning"
  /\ learningFile' = CorruptFile
  /\ pc' = "dump_learning"
  /\ UNCHANGED << symbols, startBalance, bootFiles, stateFile, state,
                  learning, loop, idx, last, reported, calls, observed, begun,
                  restarts, status, persisted, checkpoint >>

\* save_learning: json.dump(data, f, indent=2), and the file is closed;
\* if loop % SUMMARY_EVERY == 0
SaveLearning ==
  /\ pc = "dump_learning"
  /\ learningFile' = save_learning(learning)
  /\ checkpoint' = [valid |-> TRUE, state |-> state, learning |-> learning]
  /\ pc' = IF loop % SUMMARY_EVERY = 0 THEN "summary" ELSE "sleep"
  /\ UNCHANGED << symbols, startBalance, bootFiles, stateFile, state,
                  learning, loop, idx, last, reported, calls, observed, begun,
                  restarts, status, persisted >>

\* send_summary(state, learning)
SendSummary ==
  /\ pc = "summary"
  /\ reported' = reported \cup {loop}
  /\ pc' = "sleep"
  /\ UNCHANGED << symbols, startBalance, bootFiles, stateFile, learningFile,
                  state, learning, loop, idx, last, calls, observed, begun,
                  restarts, status, persisted, checkpoint >>

\* time.sleep(LOOP_DELAY)
Sleep ==
  /\ pc = "sleep"
  /\ pc' = "loop_top"
  /\ UNCHANGED << symbols, startBalance, bootFiles, stateFile, learningFile,
                  state, learning, loop, idx, last, reported, calls, observed, begun,
                  restarts, status, persisted, checkpoint >>

Next ==
  \/ LoadState
  \/ LoadLearning
  \/ BeginIteration
  \/ Observe
  \/ Trade
  \/ OpenStateFile
  \/ SaveState
  \/ OpenLearningFile
  \/ SaveLearning
  \/ SendSummary
  \/ Sleep

Spec == Init /\ [][Next]_vars

----------------------------------------------------------------------------
\* The loop with the status endpoint served beside it.

\* the files a served bot starts from: none, or the snapshots of an earlier run
ServedBootFiles ==
  { [state |-> MissingFile, learning |-> MissingFile],
    [state |-> JsonFile(EarlierState),
     learning |-> JsonFile(LearningMemory(LearningKeys, EarlierMemoryA, TRUE,
                                          EarlierLoops))] }

InitServe ==
  /\ Init
  /\ startBalance = DefaultStart
  /\ bootFiles \in ServedBootFiles

\* state.get("balance", 0.0) and state.get("positions", {}) of the response
Response(st) ==
  [balance   |-> GetBalance(st),
   positions |-> IF "positions" \in st.has THEN st.positions ELSE EmptyPositions]

\* a slip: an unreadable file is replaced by the defaults
DashboardRepairs ==
  /\ pc # "call"
  /\ LET st == load_state(stateFile, startBalance)
     IN  /\ status' = [served    |-> TRUE,
                       balance   |-> Response(st).balance,
                       positions |-> Response(st).positions,
                       writing   |-> pc = "dump_state",
                       fresh     |-> persisted = {}]
         /\ stateFile' = IF stateFile.kind = "json" THEN stateFile ELSE JsonFile(st)
  /\ UNCHANGED << symbols, startBalance, bootFiles, learningFile, state,
                  learning, pc, loop, idx, last, reported, calls, observed,
                  begun, restarts, persisted, checkpoint >>

\* dashboard: state = load_state(), answered from any point of the loop
\* thread; `writing` and `fresh` note what the request met
Dashboard ==
  /\ pc # "call"
  /\ LET st == load_state(stateFile, startBalance)
     IN  status' = [served    |-> TRUE,
                    balance   |-> Response(st).balance,
                    positions |-> Response(st).positions,
                    writing   |-> pc = "dump_state",
                    fresh     |-> persisted = {}]
  /\ UNCHANGED << symbols, startBalance, bootFiles, stateFile, learningFile,
                  state, learning, pc, loop, idx, last, reported, calls,
                  observed, begun, restarts, persisted, checkpoint >>

NextServe ==
  \/ Next
  \/ Dashboard

ServeSpec == InitServe /\ [][NextServe]_vars

----------------------------------------------------------------------------
\* The loop under a supervisor that restarts the process when it is gone.

InitRestart ==
  /\ Init
  /\ startBalance = DefaultStart
  /\ bootFiles = [state |-> MissingFile, learning |-> MissingFile]

\* the process is killed, wherever the loop thread stands, and started again:
\* the files stay as they are, main_loop starts over
Restart ==
  /\ pc # "call"
  /\ restarts < MaxRestarts
  /\ restarts' = restarts + 1
  /\ bootFiles' = [state |-> stateFile, learning |-> learningFile]
  /\ state' = NoState
  /\ learning' = NoLearning
  /\ pc' = "load_state"
  /\ loop' = 0
  /\ idx' = 0
  /\ last' = NoDecision
  /\ reported' = {}
  /\ UNCHANGED << symbols, startBalance, stateFile, learningFile, calls,
                  observed, begun, status, persisted, checkpoint >>

NextRestart ==
  \/ Next
  \/ Restart

RestartSpec == InitRestart /\ [][NextRestart]_vars

----------------------------------------------------------------------------
\* The trade executor driven directly, with any signal and price.

\* balances a call may find: the starting balances, and one whose tenth ends
\* half way between two ticks
CallBalances == StartBalances \cup {Scale + 5}

InitCalls ==
  /\ symbols = << "BTC/USDT", "ETH/USDT" >>
  /\ startBalance \in CallBalances
  /\ stateFile = MissingFile
  /\ learningFile = MissingFile
  /\ bootFiles = [state |-> stateFile, learning |-> learningFile]
  /\ state = DefaultState(startBalance)
  /\ learning = NoLearning
  /\ pc = "call"
  /\ loop = 0
  /\ idx = 0
  /\ last = NoDecision
  /\ reported = {}
  /\ calls = << >>
  /\ observed = << >>
  /\ begun = 0
  /\ restarts = 0
  /\ status = NoStatus
  /\ persisted = Persisted(stateFile)
  /\ checkpoint = NoCheckpoint

\* execute_trade(state, symbol, signal, price)
CallExecuteTrade ==
  /\ pc = "call"
  /\ Len(calls) < MaxCalls
  /\ \E symbol \in AllSymbols, signal \in {"BUY", "SELL"}, price \in Prices :
       \E o \in execute_trade(state, symbol, signal, price) :
         /\ state' = o.state
         /\ calls' = Append(calls, [symbol |-> symbol, signal |-> signal,
                                    price |-> price, before |-> state])
  /\ UNCHANGED << symbols, startBalance, bootFiles, stateFile, learningFile,
                  learning, pc, loop, idx, last, reported, observed, begun,
                  restarts, status, persisted, checkpoint >>

NextCalls == CallExecuteTrade

CallSpec == InitCalls /\ [][NextCalls]_vars

----------------------------------------------------------------------------
\* Properties.

\* a decimal as a mixed number
DecAsQ(a) == QNorm(0, a.n, Pow10(a.e))

\* the entry decide_signal reads for the symbol at hand
CurEntry == GetEntry(learning.memory, symbols[idx])

\* the average and the stability a call with this price decides with
UsedAvg(price) == IF CurEntry.known THEN CurEntry.avg ELSE DecOfInt(price)

UsedStability == IF CurEntry.known THEN CurEntry.stability ELSE FirstStability

\* price - avg * (1 + t / ThrDen), times ThrDen
OverBand(price, avg, t) ==
  QSub(QInt(price * ThrDen), QMulInt(DecAsQ(avg), ThrDen + t))

\* the latest execute_trade call and the balance a call left behind
LastCall == calls[Len(calls)]

BalanceAfter(i) == IF i = Len(calls) THEN state.balance ELSE calls[i + 1].before.balance

HeldBefore(c) == GetPosition(c.before.positions, Base(c.symbol))

\* C1: decide_signal returns SELL iff price > avg*(1+thr), BUY iff
\* price < avg*(1-thr), and HOLD otherwise, with thr = 0.01*(1 - min(0.9,
\* stability)) and avg, stability the values held before the call's update
\* (the price and 0.1 when the symbol has no average yet).
C1_SignalMatchesBand ==
  [][ pc = "symbol" =>
        LET p    == last'.price
            t    == 1000 - (IF UsedStability > 900 THEN 900 ELSE UsedStability)
            up   == QIsPositive(OverBand(p, UsedAvg(p), t))
            down == QIsNegative(OverBand(p, UsedAvg(p), 0 - t))
        IN  /\ last'.signal = "SELL" <=> up
            /\ last'.signal = "BUY" <=> down
            /\ last'.signal = "HOLD" <=> (~up /\ ~down) ]_vars

\* a BUY decided against a known average, after a HOLD on the first observation
C1_Witness ==
  /\ pc = "trade"
  /\ last.signal = "BUY"
  /\ last.avg # DecOfInt(last.price)
  /\ bootFiles.learning = MissingFile

\* C2: a SELL through execute_trade that finds no positive quantity of the
\* base asset (a zero entry or no entry) leaves the PortfolioState as it was.
C2_SellNothingHeld ==
  (Len(calls) > 0 /\ LastCall.signal = "SELL" /\ ~QIsPositive(HeldBefore(LastCall)))
    => state = LastCall.before

\* a SELL that found a zero entry left by an earlier BUY and SELL
C2_Witness ==
  /\ Len(calls) = 3
  /\ calls[1].signal = "BUY" /\ calls[1].symbol = "BTC/USDT"
  /\ calls[2].signal = "SELL" /\ calls[2].symbol = "BTC/USDT"
  /\ calls[3].signal = "SELL" /\ calls[3].symbol = "BTC/USDT"
  /\ "BTC" \in DOMAIN calls[3].before.positions
  /\ calls[3].before.positions["BTC"] = QZero
  /\ calls[3].before.balance # calls[1].before.balance
  /\ state = calls[3].before

\* C3: a BUY through execute_trade that finds a balance below 1 dollar leaves
\* the PortfolioState as it was.
C3_BuyBelowOne ==
  (Len(calls) > 0 /\ LastCall.signal = "BUY" /\ GetBalance(LastCall.before) < Scale)
    => state = LastCall.before

\* a BUY that found half a dollar
C3_Witness ==
  /\ Len(calls) > 0
  /\ LastCall.signal = "BUY"
  /\ LastCall.before.balance = Scale \div 2
  /\ state = LastCall.before

\* a BUY at calls[i] followed at once by a SELL of the same symbol at the
\* same price
RoundTripAt(i) ==
  /\ calls[i].signal = "BUY"
  /\ calls[i + 1].signal = "SELL"
  /\ calls[i + 1].symbol = calls[i].symbol
  /\ calls[i + 1].price = calls[i].price

\* the balance after the SELL is within one tick (0.0001) of the balance
\* before the BUY
RoundTripRestores(i) == Abs(BalanceAfter(i + 1) - calls[i].before.balance) <= 1

\* C4, as stated: from any reachable PortfolioState, BUY then SELL of the same
\* symbol at the same price returns the balance to within the rounding
\* tolerance of what it was before the BUY (read for a BUY that goes through:
\* it finds a balance of at least 1 dollar).
C4_RoundTripAnyState ==
  \A i \in 1..(Len(calls) - 1) :
    (RoundTripAt(i) /\ GetBalance(calls[i].before) >= Scale) => RoundTripRestores(i)

\* C4, amended: the same, for a BUY that finds no quantity of the symbol's
\* base asset held.
C4_RoundTripFromFlat ==
  \A i \in 1..(Len(calls) - 1) :
    (RoundTripAt(i) /\ ~QIsPositive(HeldBefore(calls[i]))) => RoundTripRestores(i)

\* a round trip from a flat position whose two roundings moved the balance by
\* one tick
C4_Witness ==
  /\ Len(calls) = 2
  /\ RoundTripAt(1)
  /\ ~QIsPositive(HeldBefore(calls[1]))
  /\ calls[2].before.balance < calls[1].before.balance
  /\ Abs(state.balance - calls[1].before.balance) = 1

\* stabilities of a memory lie in [0, 1]
StabilitiesBounded(memory) ==
  \A s \in DOMAIN memory : memory[s].stability >= 0 /\ memory[s].stability <= 1000

\* C5: in every reachable state the stored stability of every symbol lies in
\* [0, 1], in the loop's memory and in the snapshot it wrote.
C5_StabilityBounded ==
  /\ StabilitiesBounded(learning.memory)
  /\ learningFile.kind = "json" => StabilitiesBounded(learningFile.doc.memory)

\* one symbol was held at 1.0 by the cap and another at 0.0 by the floor
C5_Witness ==
  /\ pc = "trade"
  /\ last.symbol = "ETH/USDT"
  /\ last.stability < 20
  /\ last.entry.stability = 0
  /\ learning.memory["ETH/USDT"].stability = 0
  /\ learning.memory["BTC/USDT"].stability = 1000
  /\ loop >= 2

\* C6: every decide_signal call, whatever its signal, replaces the symbol's
\* running average by 0.9*oldAverage + 0.1*price, oldAverage being the average
\* before the call (the price itself on the first observation).
C6_AverageUpdate ==
  [][ pc = "symbol" =>
        LET p   == last'.price
            sym == symbols[idx]
            new == learning'.memory[sym]
        IN  /\ new.known
            /\ last'.signal \in {"BUY", "SELL", "HOLD"}
            /\ QMulInt(DecAsQ(new.avg), 10)
                 = QAdd(QMulInt(DecAsQ(UsedAvg(p)), 9), QInt(p)) ]_vars

\* a SELL whose call moved the average
C6_Witness ==
  /\ pc = "trade"
  /\ last.signal = "SELL"
  /\ learning.memory[last.symbol].avg # last.avg
  /\ learning.memory[last.symbol].avg = last.entry.avg

\* the scenario's start: balance 10000, empty memory, a single symbol, and
\* the prices seen so far
Scenario(prices) ==
  /\ symbols = << "BTC/USDT" >>
  /\ startBalance = 10000 * Scale
  /\ bootFiles = [state |-> MissingFile, learning |-> MissingFile]
  /\ observed = prices
  /\ pc \notin {"symbol", "trade"}

\* what the scenario says of its two observations, but for the threshold of
\* the second
ScenarioOutcome ==
  /\ Scenario(<< 100 >>) =>
       /\ last.avg = DecOfInt(100)
       /\ last.stability = 100
       /\ last.signal = "HOLD"
       /\ learning.memory["BTC/USDT"].avg = DecOfInt(100)
  /\ Scenario(<< 100, 103 >>) =>
       /\ last.avg = DecOfInt(100)
       /\ last.signal = "SELL"
       /\ pc # "crashed"
       /\ state = DefaultState(10000 * Scale)
       /\ learning.memory["BTC/USDT"].avg = [n |-> 1003, e |-> 1]

\* C7, as stated: from balance 10000, empty memory and a single symbol, the
\* first observation at 100 starts from avg = 100, stability = 0.1 and yields
\* HOLD; the second at 103 is decided with thr = 0.01*0.9 = 0.009, yields
\* SELL, the trade is skipped with the PortfolioState unchanged, and the new
\* average is 100.3.
C7_ScenarioThr009 ==
  /\ ScenarioOutcome
  /\ Scenario(<< 100, 103 >>) => (last.stability = 100 /\ last.thr = 900)

\* C7, amended: the same, the second observation being decided with the
\* stability 0.13 that the first one stored, thr = 0.01*0.87 = 0.0087.
C7_ScenarioThr0087 ==
  /\ ScenarioOutcome
  /\ Scenario(<< 100, 103 >>) => (last.stability = 130 /\ last.thr = 870)

\* the scenario after its second observation and the skipped trade
C7_Witness ==
  /\ Scenario(<< 100, 103 >>)
  /\ pc = "save_state"
  /\ loop = 2
  /\ last.signal = "SELL"

\* twice the difference lies in [-1, 1]: the amount is within half a tick
WithinHalf(diff) ==
  LET twice == QMulInt(diff, 2)
  IN  twice.w = 0 - 1 \/ twice.w = 0 \/ (twice.w = 1 /\ twice.f = 0)

\* a BUY's effect: the balance down by a tenth of itself, rounded, and the
\* position up by that tenth over the price
BuyEffect(base, price) ==
  /\ Abs(10 * state'.balance - 9 * state.balance) <= 5
  /\ QSub(GetPosition(state'.positions, base), GetPosition(state.positions, base))
       = QFrac(state.balance, 10 * price)

\* a SELL's effect: the balance up by held * price, rounded, and the position 0
SellEffect(base, price) ==
  /\ WithinHalf(QSub(QInt(state'.balance - state.balance),
                     QMulInt(GetPosition(state.positions, base), price)))
  /\ GetPosition(state'.positions, base) = QZero

\* C8: a BUY that executes lowers the balance by the notional (10% of it) and
\* raises the position by notional/price (10000 at price 100: quantity 10,
\* balance 9000); a SELL that executes raises the balance by held*price and
\* zeroes the position; no other step of the loop changes the balance (up to
\* rounding to 4 decimals).
C8_CashFlow ==
  [][ /\ (pc \notin {"trade", "load_state"}) => state' = state
      /\ (pc = "trade" /\ state' # state) =>
           /\ last.signal = "BUY" => BuyEffect(Base(last.symbol), last.price)
           /\ last.signal = "SELL" => SellEffect(Base(last.symbol), last.price)
           /\ last.signal \in {"BUY", "SELL"}
           /\ \A b \in DOMAIN state.positions :
                b # Base(last.symbol) => state'.positions[b] = state.positions[b]
      /\ (pc = "trade" /\ last.signal = "BUY" /\ last.price = 100
            /\ state = DefaultState(10000 * Scale)) =>
           /\ state'.balance = 9000 * Scale
           /\ GetPosition(state'.positions, Base(last.symbol)) = QInt(10 * Scale) ]_vars

\* the BUY of the example has executed, and a later SELL too
C8_Witness ==
  /\ startBalance = 10000 * Scale
  /\ last.signal = "SELL"
  /\ pc = "save_state"
  /\ state.balance > 10000 * Scale
  /\ GetPosition(state.positions, "BTC") = QZero
  /\ stateFile.kind = "json"
  /\ stateFile.doc.balance = 9000 * Scale
  /\ GetPosition(stateFile.doc.positions, "BTC") = QInt(10 * Scale)

\* C9: in every reachable state of the loop every position quantity is
\* non-negative.
C9_PositionsNonNegative ==
  \A b \in DOMAIN state.positions : ~QIsNegative(state.positions[b])

\* a position bought in one iteration and sold in a later one
C9_Witness ==
  /\ bootFiles = [state |-> MissingFile, learning |-> MissingFile]
  /\ "BTC" \in DOMAIN state.positions
  /\ state.positions["BTC"] = QZero
  /\ stateFile.kind = "json"
  /\ QIsPositive(GetPosition(stateFile.doc.positions, "BTC"))
  /\ pc = "save_state"

\* a snapshot file that is missing or malformed: unparseable, or a JSON
\* object that lacks expected keys
BadStateFile(f) == f.kind # "json" \/ ~({"balance", "positions", "pnl"} \subseteq f.doc.has)

BadLearningFile(f) ==
  f.kind # "json" \/ ~({"memory", "global"} \subseteq f.doc.has) \/ ~f.doc.hasLoops

\* C10: when a snapshot file is missing or malformed at startup, the defaults
\* are substituted for it and the loop runs its iterations without crashing.
C10_DefaultsNoCrash ==
  /\ (BadStateFile(bootFiles.state) /\ pc = "load_learning") =>
       state = DefaultState(startBalance)
  /\ (BadLearningFile(bootFiles.learning) /\ pc = "loop_top" /\ loop = 0) =>
       /\ learning.loops = 0
       /\ \A i \in 1..Len(symbols) : learning.memory[symbols[i]] = DefaultEntry
  /\ (BadStateFile(bootFiles.state) \/ BadLearningFile(bootFiles.learning)) =>
       pc # "crashed"

\* the part of C10 about crashing alone
C10_NoCrash ==
  (BadStateFile(bootFiles.state) \/ BadLearningFile(bootFiles.learning)) =>
    pc # "crashed"

\* C19: started from a non-negative starting balance, the loop never holds
\* and never saves a negative cash balance, whatever BUY and SELL trades it
\* makes at positive prices.
C19_BalanceNonNegative ==
  /\ GetBalance(state) >= 0
  /\ stateFile.kind = "json" => GetBalance(stateFile.doc) >= 0

\* a BUY has just lowered a balance that an earlier BUY of the other asset
\* had lowered before
C19_Witness ==
  /\ startBalance >= 0
  /\ pc \in {"symbol", "save_state"}
  /\ last.signal = "BUY"
  /\ QIsPositive(GetPosition(state.positions, "BTC"))
  /\ QIsPositive(GetPosition(state.positions, "ETH"))
  /\ state.balance > 0
  /\ state.balance < 81 * (startBalance \div 100) + 2
  /\ bootFiles.state = MissingFile

\* |x| of a mixed number
QAbs(x) == IF QIsNegative(x) THEN QSub(QZero, x) ELSE x

\* distance < 1.5 * t / ThrDen, distance = |price - avg| / max(1, avg),
\* cleared of its denominators: |price - avg| * 2 * ThrDen < max(1, avg) * 3 * t
DistanceBelow(price, avg, t) ==
  LET a      == DecAsQ(avg)
      larger == IF a.w >= 1 THEN a ELSE QInt(1)
  IN  QIsNegative(QSub(QMulInt(QAbs(QSub(QInt(price), a)), 2 * ThrDen),
                       QMulInt(larger, 3 * t)))

\* C16: every decide_signal call takes the stability s held before it (0.1
\* on the symbol's first observation) and thr = 0.01*(1 - min(0.9, s)), and
\* stores min(1.0, s + 0.03) if |price - oldAverage| / max(1, oldAverage) <
\* 1.5*thr, and max(0.0, s - 0.02) otherwise.
C16_StabilityUpdate ==
  [][ pc = "symbol" =>
        LET p == last'.price
            s == UsedStability
            t == 1000 - (IF s > 900 THEN 900 ELSE s)
            new == learning'.memory[symbols[idx]].stability
        IN  /\ last'.thr = t
            /\ IF DistanceBelow(p, UsedAvg(p), t)
               THEN new = (IF s + 30 > 1000 THEN 1000 ELSE s + 30)
               ELSE new = (IF s - 20 < 0 THEN 0 ELSE s - 20) ]_vars

\* in one iteration from empty memory, BTC's second observation raised its
\* stability and ETH's lowered it
C16_Witness ==
  /\ pc = "trade"
  /\ bootFiles.learning = MissingFile
  /\ loop = 2
  /\ last.symbol = "ETH/USDT"
  /\ last.stability = 130
  /\ last.entry.stability = 110
  /\ learning.memory["ETH/USDT"].stability = 110
  /\ learning.memory["BTC/USDT"].stability = 160

\* learning["global"].get("loops", 0) of a LearningMemory
GetLoops(data) == IF data.hasLoops THEN data.loops ELSE 0

\* the global loop counter a snapshot file holds, 0 when it holds none
FileLoops(file) ==
  IF file.kind = "json" /\ "global" \in file.doc.has THEN GetLoops(file.doc) ELSE 0

\* the counter of the latest snapshot written completely: this run's latest,
\* or else the one found at startup
SavedLoops ==
  IF checkpoint.valid THEN checkpoint.learning.loops ELSE FileLoops(bootFiles.learning)

\* C17: the global loop counter never decreases and goes up by exactly one
\* per iteration: in memory it starts from the loaded snapshot's counter, the
\* start of an iteration adds one and no other step changes it; each snapshot
\* written holds the memory's counter, one more than the snapshot before it.
C17_LoopCounter ==
  [][ /\ pc = "load_learning" => GetLoops(learning') = FileLoops(learningFile)
      /\ pc = "loop_top" =>
           (learning'.hasLoops /\ learning'.loops = GetLoops(learning) + 1)
      /\ pc \notin {"load_learning", "loop_top"} =>
           GetLoops(learning') = GetLoops(learning)
      /\ pc = "dump_learning" =>
           /\ FileLoops(learningFile') = GetLoops(learning)
           /\ FileLoops(learningFile') = SavedLoops + 1
      /\ (learningFile' # learningFile /\ learningFile'.kind = "json") =>
           pc = "dump_learning" ]_vars

\* two iterations after a snapshot that counted 7 loops, the snapshot on disk
\* counts 9
C17_Witness ==
  /\ FileLoops(bootFiles.learning) = EarlierLoops
  /\ loop = 2
  /\ pc = "sleep"
  /\ learning.loops = EarlierLoops + 2
  /\ FileLoops(learningFile) = EarlierLoops + 2
  /\ checkpoint.learning.loops = EarlierLoops + 2

\* the iterations of this run, up to the current one, whose number is a
\* multiple of SUMMARY_EVERY
DueReports == { k \in 1..loop : k % SUMMARY_EVERY = 0 }

\* C14: an iteration first adds one to the run's counter and to the global
\* counter; then takes the symbols in their configured order, deciding a
\* signal for each and calling execute_trade exactly when it is not HOLD;
\* then writes BACKUP_FILE, then LEARNING_FILE; and calls send_summary only
\* with both written, in exactly the iterations whose number within the run
\* is a multiple of SUMMARY_EVERY.
C14_IterationOrder ==
  [][ /\ pc = "loop_top" =>
           /\ loop' = loop + 1
           /\ learning'.loops = GetLoops(learning) + 1
           /\ pc' = "symbol" /\ idx' = 1
      /\ pc = "symbol" =>
           /\ last'.symbol = symbols[idx]
           /\ \E price \in fetch_mock_price(symbols[idx]) : last'.price = price
           /\ state' = state
           /\ IF last'.signal # "HOLD"
              THEN pc' = "trade" /\ idx' = idx
              ELSE /\ idx' = idx + 1
                   /\ pc' = (IF idx < Len(symbols) THEN "symbol" ELSE "save_state")
      /\ pc = "trade" =>
           /\ last.signal # "HOLD" /\ last.symbol = symbols[idx]
           /\ \/ pc' = "crashed"
              \/ /\ idx' = idx + 1
                 /\ pc' = (IF idx < Len(symbols) THEN "symbol" ELSE "save_state")
      /\ pc = "save_state" => (idx = Len(symbols) + 1 /\ pc' = "dump_state")
      /\ pc = "dump_state" => (stateFile' = JsonFile(state) /\ pc' = "save_learning")
      /\ pc = "save_learning" => (stateFile = JsonFile(state) /\ pc' = "dump_learning")
      /\ pc = "dump_learning" =>
           /\ learningFile' = JsonFile(learning)
           /\ pc' = (IF loop % SUMMARY_EVERY = 0 THEN "summary" ELSE "sleep")
      /\ stateFile' # stateFile => pc \in {"save_state", "dump_state"}
      /\ learningFile' # learningFile => pc \in {"save_learning", "dump_learning"}
      /\ pc = "summary" =>
           /\ stateFile = JsonFile(state) /\ learningFile = JsonFile(learning)
           /\ loop % SUMMARY_EVERY = 0
           /\ reported' = reported \cup {loop}
           /\ pc' = "sleep"
      /\ pc # "summary" => reported' = reported
      /\ pc = "sleep" => (reported = DueReports /\ pc' = "loop_top") ]_vars

\* the third iteration of a run that found a snapshot counting 7 loops is at
\* its end: send_summary ran in the second only, after a trade
C14_Witness ==
  /\ pc = "sleep"
  /\ loop = 3
  /\ reported = {2}
  /\ learning.loops = EarlierLoops + 3
  /\ Len(symbols) = 2
  /\ last.signal # "HOLD"
  /\ state # load_state(bootFiles.state, startBalance)

\* decide_signal calls made so far in the current iteration
CallsThisIteration ==
  CASE pc = "symbol" -> idx - 1
    [] pc \in {"trade", "crashed"} -> idx
    [] pc \in {"save_state", "dump_state", "save_learning", "dump_learning",
               "summary", "sleep"} -> Len(symbols)
    [] OTHER -> 0

\* C15: each iteration updates the memory entry of every configured symbol
\* exactly once, whatever the signal: one decide_signal call per symbol, in
\* order, each replacing the entry of its own symbol and no other; a call
\* leaves the PortfolioState alone, and after a HOLD the PortfolioState stays
\* as it is until the next call.
C15_OneUpdatePerSymbol ==
  [][ /\ pc = "symbol" =>
           /\ learning'.memory[symbols[idx]] = last'.entry
           /\ last'.entry.known
           /\ DOMAIN learning'.memory = (DOMAIN learning.memory) \cup {symbols[idx]}
           /\ \A s \in DOMAIN learning.memory :
                s # symbols[idx] => learning'.memory[s] = learning.memory[s]
           /\ Len(observed') = Len(observed) + 1
           /\ state' = state
           /\ last'.signal = "HOLD" => pc' # "trade"
      /\ pc \notin {"symbol", "load_learning"} =>
           (learning'.memory = learning.memory /\ observed' = observed)
      /\ (pc # "load_state" /\ state' # state) =>
           (pc = "trade" /\ last.signal # "HOLD")
      /\ (loop' >= 1 /\ pc' # "loop_top") =>
           Len(observed') = (loop' - 1) * Len(symbols) + CallsThisIteration'
      /\ (loop' >= 1 /\ pc' = "loop_top") =>
           Len(observed') = loop' * Len(symbols) ]_vars

\* an iteration over two symbols is about to save: the last call was a HOLD
\* for ETH that moved ETH's average, BTC's entry is another one, and no trade
\* has touched the PortfolioState
C15_Witness ==
  /\ pc = "save_state"
  /\ symbols = << "BTC/USDT", "ETH/USDT" >>
  /\ last.symbol = "ETH/USDT"
  /\ last.signal = "HOLD"
  /\ learning.memory["ETH/USDT"] = last.entry
  /\ last.entry.avg # last.avg
  /\ learning.memory["BTC/USDT"] # learning.memory["ETH/USDT"]
  /\ Len(observed) = 2 * loop
  /\ state = load_state(bootFiles.state, startBalance)

\* the statements of main_loop the loop thread can stand at; from each of
\* them it has a next step
LoopStatements ==
  {"load_state", "load_learning", "loop_top", "symbol", "trade", "save_state",
   "dump_state", "save_learning", "dump_learning", "summary", "sleep"}

\* the steps of an iteration up to the end of its persistence
BeforePersisted ==
  {"symbol", "trade", "save_state", "dump_state", "save_learning", "dump_learning"}

\* C12: the loop has no terminal state: in every reachable state the loop
\* thread stands at a statement of main_loop, with a next step to take, and
\* an iteration it has left behind has completed its persistence step.
C12_NoTerminalState ==
  /\ pc \in LoopStatements
  /\ (loop >= 1 /\ pc \notin BeforePersisted) =>
       (checkpoint.valid /\ checkpoint.state = state /\ checkpoint.learning = learning)

\* every variable but the status endpoint's response
loopView ==
  << symbols, startBalance, bootFiles, stateFile, learningFile, state, learning,
     pc, loop, idx, last, reported, calls, observed, begun, restarts, persisted,
     checkpoint >>

\* C13: status requests, however many and wherever they fall between the
\* steps of the loop, change neither snapshot file nor the loop's state and
\* memory: every step is a step of the loop alone, or leaves everything but
\* the response as it was, so the loop's run is the same with the requests
\* taken out.
C13_StatusReadOnly == [][Next \/ UNCHANGED loopView]_vars

\* a request was answered with the snapshot of the iteration before while the
\* loop, a trade later, stands between its two saves
C13_Witness ==
  /\ status.served
  /\ pc = "save_learning"
  /\ loop = 2
  /\ status.balance # GetBalance(state)
  /\ stateFile = JsonFile(state)
  /\ learningFile.kind = "json"
  /\ learningFile.doc # learning

\* the balance and positions of the latest response
Served == [balance |-> status.balance, positions |-> status.positions]

\* the response shows a PortfolioState that was written completely
ServedPersisted == \E d \in persisted : Served = Response(d)

\* the response shows the defaults: the starting balance and no positions
ServedDefaults == Served = Response(DefaultState(startBalance))

\* C18, as stated: a status request served at any moment, also while the
\* loop is overwriting BACKUP_FILE, reports the balance and positions of a
\* PortfolioState the loop has persisted, or the defaults only when no
\* snapshot has ever been persisted.
C18_ServesPersisted ==
  status.served => (ServedPersisted \/ (status.fresh /\ ServedDefaults))

\* C18, amended: the same, or the defaults when the request reads
\* BACKUP_FILE between the loop's open(BACKUP_FILE, "w") and the end of its
\* json.dump.
C18_ServesPersistedOrTorn ==
  status.served =>
    \/ ServedPersisted
    \/ (status.fresh /\ ServedDefaults)
    \/ (status.writing /\ ServedDefaults)

\* a request met the emptied file of a later save and was answered with the
\* defaults, which no snapshot written so far holds
C18_Witness ==
  /\ status.served
  /\ status.writing
  /\ ~status.fresh
  /\ ServedDefaults
  /\ ~ServedPersisted
  /\ persisted # {}

\* C11: when the process is killed at any point of the loop and started
\* again, the PortfolioState and the LearningMemory that main_loop has loaded
\* are the ones it held when it last finished saving an iteration, global
\* loop counter included.
C11_RestartRestores ==
  (restarts > 0 /\ pc = "loop_top" /\ loop = 0 /\ checkpoint.valid) =>
    (state = checkpoint.state /\ learning = checkpoint.learning)

====
